---------------------------- MODULE Spec2Model ----------------------------
(***************************************************************************)
(* Model of app.py of the NBA wins pool: the standings computation         *)
(* (fetch_standings_for_date), the participant aggregation                 *)
(* (calculate_totals) and the historical loop (fetch_history).             *)
(*                                                                         *)
(* Python strings are sequences of one-character strings, so that lower()  *)
(* and the substring test `in` are computed and not assumed.  A DataFrame  *)
(* is the sequence of its rows; a row is a record, and a missing field     *)
(* (None / NaN) is a field absent from the record's domain.                *)
(***************************************************************************)
EXTENDS Integers, Sequences, FiniteSets, TLC

VARIABLES
    records,      \* calculate_totals: the argument df of a direct call
    result,       \* calculate_totals: what that call produced
    games,        \* the provider's game rows (LeagueGameFinder's frame)
    start_date,   \* fetch_history: argument, an ISO date string
    end_date,     \* fetch_history: argument, an ISO date string
    pc,           \* fetch_history: "idle", "loop" or "done"
    i,            \* fetch_history: the loop variable
    history,      \* fetch_history: the list of entries
    frame,        \* fetch_history: the returned DataFrame
    fetched,      \* log of the fetch_standings_for_date calls of the loop
    updates       \* how often the provider's rows changed during the loop

vars == <<records, result, games, start_date, end_date, pc, i, history,
          frame, fetched, updates>>

---------------------------------------------------------------------------
(* Bounds of the model *)

MaxRecords == 2

MaxWins == 2

MaxDay == 2

MaxGames == 2

MaxUpdates == 1

---------------------------------------------------------------------------
(* Strings *)

UPPER == <<"A","B","C","D","E","F","G","H","I","J","K","L","M","N","O","P","Q","R","S","T","U","V","W","X","Y","Z">>

LOWER == <<"a","b","c","d","e","f","g","h","i","j","k","l","m","n","o","p","q","r","s","t","u","v","w","x","y","z">>

\* the lower-case letter of every upper-case letter
FOLD ==
    [c \in {UPPER[k] : k \in 1..Len(UPPER)} |->
        LOWER[CHOOSE k \in 1..Len(UPPER) : UPPER[k] = c]]

\* str.lower() on one character: ASCII letters fold, everything else stays
lower_char(c) == IF c \in DOMAIN FOLD THEN FOLD[c] ELSE c

\* str.lower()
lower(s) == [k \in 1..Len(s) |-> lower_char(s[k])]

\* Python's `sub in s` on strings
contains(sub, s) ==
    \E o \in 0..(Len(s) - Len(sub)) : SubSeq(s, o + 1, o + Len(sub)) = sub

\* str.startswith
startswith(s, prefix) ==
    /\ Len(prefix) <= Len(s)
    /\ SubSeq(s, 1, Len(prefix)) = prefix

---------------------------------------------------------------------------
(* Configuration *)

PARTICIPANT_TEAMS ==
    [ Zack   |-> << <<"C","a","v","a","l","i","e","r","s">>, <<"M","a","v","e","r","i","c","k","s">>, <<"P","i","s","t","o","n","s">>, <<"H","o","r","n","e","t","s">> >>,
      Ryan   |-> << <<"T","h","u","n","d","e","r">>, <<"B","u","c","k","s">>, <<"H","a","w","k","s">>, <<"B","u","l","l","s">> >>,
      Streif |-> << <<"K","n","i","c","k","s">>, <<"L","a","k","e","r","s">>, <<"R","a","p","t","o","r","s">>, <<"7","6","e","r","s">> >>,
      Doug   |-> << <<"R","o","c","k","e","t","s">>, <<"T","i","m","b","e","r","w","o","l","v","e","s">>, <<"G","r","i","z","z","l","i","e","s">>, <<"H","e","a","t">> >>,
      Chris  |-> << <<"N","u","g","g","e","t","s">>, <<"S","p","u","r","s">>, <<"W","a","r","r","i","o","r","s">>, <<"T","r","a","i","l"," ","B","l","a","z","e","r","s">> >>,
      Matt   |-> << <<"M","a","g","i","c">>, <<"C","e","l","t","i","c","s">>, <<"C","l","i","p","p","e","r","s">>, <<"P","a","c","e","r","s">> >> ]

---------------------------------------------------------------------------
(* calculate_totals *)

\* any(team.lower() in t.lower() for team in teams)
matches_casesensitive(t, teams) ==
    \E j \in 1..Len(teams) : contains(teams[j], t)

matches(t, teams) ==
    LET name == lower(t)
    IN  \E j \in 1..Len(teams) : contains(lower(teams[j]), name)

\* Series.sum() of the selected wins: a missing value (NaN) is skipped
RECURSIVE sum_wins(_)
sum_wins(rows) ==
    IF rows = <<>> THEN 0
    ELSE (IF "wins" \in DOMAIN Head(rows) THEN Head(rows).wins ELSE 0)
         + sum_wins(Tail(rows))

\* df.loc[mask, 'wins'].sum() with mask = df['team'].apply(...)
RECURSIVE participant_total_perfragment(_, _)
participant_total_perfragment(df, teams) ==
    IF teams = <<>> THEN 0
    ELSE sum_wins(SelectSeq(df, LAMBDA r : contains(lower(Head(teams)), lower(r.team))))
         + participant_total_perfragment(df, Tail(teams))

participant_total(df, teams) ==
    sum_wins(SelectSeq(df, LAMBDA r : matches(r.team, teams)))

\* t.lower() on a missing team (None / NaN) raises AttributeError, in the
\* first participant's apply; with no participant the loop body never runs
raises(df, roster) ==
    /\ DOMAIN roster # {}
    /\ \E k \in 1..Len(df) : "team" \notin DOMAIN df[k]

\* the body of calculate_totals, its free variable PARTICIPANT_TEAMS as a
\* parameter
aggregate_matched_only(df, roster) ==
    IF raises(df, roster)
    THEN [status |-> "AttributeError", totals |-> [p \in {} |-> 0]]
    ELSE [status |-> "ok",
          totals |-> [p \in {q \in DOMAIN roster :
                               \E k \in 1..Len(df) : matches(df[k].team, roster[q])}
                        |-> participant_total(df, roster[p])]]

aggregate_empty_guard(df, roster) ==
    IF df = <<>>
    THEN [status |-> "ok", totals |-> [p \in {} |-> 0]]
    ELSE IF raises(df, roster)
    THEN [status |-> "AttributeError", totals |-> [p \in {} |-> 0]]
    ELSE [status |-> "ok",
          totals |-> [p \in DOMAIN roster |-> participant_total(df, roster[p])]]

aggregate(df, roster) ==
    IF raises(df, roster)
    THEN [status |-> "AttributeError", totals |-> [p \in {} |-> 0]]
    ELSE [status |-> "ok",
          totals |-> [p \in DOMAIN roster |-> participant_total(df, roster[p])]]

calculate_totals(df) == aggregate(df, PARTICIPANT_TEAMS)

---------------------------------------------------------------------------
(* Inputs of a direct call of calculate_totals *)

TEAM_NAMES ==
    { <<"L","o","s"," ","A","n","g","e","l","e","s"," ","L","a","k","e","r","s">>, <<"L","O","S"," ","A","N","G","E","L","E","S"," ","L","A","K","E","R","S">>, <<"M","i","a","m","i"," ","H","e","a","t">>,
      <<"K","n","i","c","k","s"," ","L","a","k","e","r","s">>, <<"H","e","a","t"," ","H","a","w","k","s">>, <<"B","r","o","o","k","l","y","n"," ","N","e","t","s">> }

\* well-formed TeamRecords, and the two malformed ones
RECORD_POOL ==
    [team : TEAM_NAMES, wins : 0..MaxWins]
      \cup { [wins |-> 1], [team |-> <<"L","o","s"," ","A","n","g","e","l","e","s"," ","L","a","k","e","r","s">>] }

RECORD_LISTS == UNION { [1..n -> RECORD_POOL] : n \in 0..MaxRecords }

NotCalled == [status |-> "not called", totals |-> [p \in {} |-> 0]]

InitAgg ==
    /\ records \in RECORD_LISTS
    /\ result = NotCalled
    /\ games = <<>>
    /\ start_date = <<>>
    /\ end_date = <<>>
    /\ pc = "idle"
    /\ i = 0
    /\ history = <<>>
    /\ frame = <<>>
    /\ fetched = <<>>
    /\ updates = 0

CallCalculateTotals ==
    /\ result = NotCalled
    /\ result' = calculate_totals(records)
    /\ UNCHANGED <<records, games, start_date, end_date, pc, i, history,
                   frame, fetched, updates>>

NextAgg == CallCalculateTotals

SpecAgg == InitAgg /\ [][NextAgg]_vars


---------------------------------------------------------------------------
(* Dates *)

\* the calendar days the model ranges over; a datetime.date is its
\* position in this list, counted from 0
CALENDAR ==
    << <<2025, 10, 30>>, <<2025, 10, 31>>, <<2025, 11, 1>>,
       <<2025, 11, 2>>, <<2025, 11, 3>>, <<2025, 11, 4>> >>

\* date.isoformat(): year, month, day
isoformat(d) == CALENDAR[d + 1]

\* datetime.fromisoformat(), pd.to_datetime() on an ISO date
fromisoformat(s) == (CHOOSE k \in 1..Len(CALENDAR) : CALENDAR[k] = s) - 1

DATE_STRS == {isoformat(d) : d \in 0..MaxDay}

---------------------------------------------------------------------------
(* The provider's game rows *)

REGULAR == <<"0","0","2","2","5","0","0","0","0","1">>

PRESEASON == <<"0","0","1","2","5","0","0","0","0","1">>

PLAYOFFS == <<"0","0","4","2","5","0","0","0","0","1">>

\* rows LeagueGameFinder may return: one per team and game
GAME_ROWS ==
    << [TEAM_NAME |-> <<"L","o","s"," ","A","n","g","e","l","e","s"," ","L","a","k","e","r","s">>, GAME_DATE |-> <<2025, 10, 30>>,
        GAME_ID |-> REGULAR, WL |-> "W"],
       [TEAM_NAME |-> <<"L","o","s"," ","A","n","g","e","l","e","s"," ","L","a","k","e","r","s">>, GAME_DATE |-> <<2025, 10, 31>>,
        GAME_ID |-> REGULAR, WL |-> "W"],
       [TEAM_NAME |-> <<"M","i","a","m","i"," ","H","e","a","t">>, GAME_DATE |-> <<2025, 10, 31>>,
        GAME_ID |-> REGULAR, WL |-> "W"],
       [TEAM_NAME |-> <<"M","i","a","m","i"," ","H","e","a","t">>, GAME_DATE |-> <<2025, 11, 1>>,
        GAME_ID |-> REGULAR, WL |-> "L"],
       [TEAM_NAME |-> <<"L","o","s"," ","A","n","g","e","l","e","s"," ","L","a","k","e","r","s">>, GAME_DATE |-> <<2025, 11, 1>>,
        GAME_ID |-> PLAYOFFS, WL |-> "W"],
       [TEAM_NAME |-> <<"M","i","a","m","i"," ","H","e","a","t">>, GAME_DATE |-> <<2025, 10, 30>>,
        GAME_ID |-> PRESEASON, WL |-> "W"],
       [TEAM_NAME |-> <<"B","r","o","o","k","l","y","n"," ","N","e","t","s">>, GAME_DATE |-> <<2025, 10, 31>>,
        GAME_ID |-> REGULAR, WL |-> "W"] >>

\* the frame holding the rows of GAME_ROWS at the positions in S
frame_of(S) ==
    LET positions == SelectSeq([k \in 1..Len(GAME_ROWS) |-> k],
                               LAMBDA k : k \in S)
    IN  [k \in 1..Len(positions) |-> GAME_ROWS[positions[k]]]

positions_of(rows) ==
    {k \in 1..Len(GAME_ROWS) : \E j \in 1..Len(rows) : rows[j] = GAME_ROWS[k]}

GAME_FRAMES ==
    {frame_of(S) : S \in {T \in SUBSET (1..Len(GAME_ROWS)) :
                            Cardinality(T) <= MaxGames}}

---------------------------------------------------------------------------
(* fetch_standings_for_date *)

\* games[games['GAME_DATE'] <= cutoff]
upto_cutoff_reversed(rows, cutoff) ==
    SelectSeq(rows, LAMBDA g : fromisoformat(g.GAME_DATE) >= cutoff)

upto_cutoff(rows, cutoff) ==
    SelectSeq(rows, LAMBDA g : fromisoformat(g.GAME_DATE) <= cutoff)

\* games[games['GAME_ID'].astype(str).str.startswith("002")]
regular_season_unfiltered(rows) == rows

regular_season(rows) ==
    SelectSeq(rows, LAMBDA g : startswith(g.GAME_ID, <<"0","0","2">>))

\* the WINNER column: TEAM_NAME if WL == 'W' else None; the rows whose
\* WINNER is None carry no WINNER field
winner_column(rows) ==
    [k \in 1..Len(rows) |->
        IF "WL" \in DOMAIN rows[k] /\ rows[k].WL = "W"
        THEN [WINNER |-> rows[k].TEAM_NAME]
        ELSE [w \in {} |-> 0]]

\* the distinct values of a list, in the order of their first appearance
RECURSIVE unique(_)
unique(s) ==
    IF s = <<>> THEN <<>>
    ELSE <<Head(s)>> \o SelectSeq(unique(Tail(s)), LAMBDA x : x # Head(s))

\* sort_values(by='wins', ascending=False), kept stable
RECURSIVE sort_by_wins_desc(_)
sort_by_wins_desc(s) ==
    IF s = <<>> THEN <<>>
    ELSE LET rest == sort_by_wins_desc(Tail(s))
         IN  SelectSeq(rest, LAMBDA r : r.wins > Head(s).wins)
               \o <<Head(s)>>
               \o SelectSeq(rest, LAMBDA r : r.wins <= Head(s).wins)

\* games['WINNER'].value_counts().reset_index() with columns team, wins:
\* None is dropped, one row per winner with the number of its rows
value_counts(column) ==
    LET present == SelectSeq(column, LAMBDA c : "WINNER" \in DOMAIN c)
        names   == unique([k \in 1..Len(present) |-> present[k].WINNER])
    IN  sort_by_wins_desc(
          [k \in 1..Len(names) |->
              [team |-> names[k],
               wins |-> Len(SelectSeq(present,
                                      LAMBDA c : c.WINNER = names[k]))]])

\* pd.DataFrame(columns=['team', 'wins'])
EMPTY_STANDINGS == <<>>

\* provider_raises: the request to the stats provider raised.  With no row
\* left after the two filters, games.apply(..., axis=1) returns a frame,
\* whose assignment to the one column WINNER raises ValueError; the except
\* clause turns either into the empty table.
fetch_standings_for_date(rows, date_str, provider_raises) ==
    IF provider_raises THEN EMPTY_STANDINGS
    ELSE LET cutoff   == fromisoformat(date_str)
             filtered == regular_season(upto_cutoff(rows, cutoff))
         IN  IF filtered = <<>> THEN EMPTY_STANDINGS
             ELSE sort_by_wins_desc(value_counts(winner_column(filtered)))

---------------------------------------------------------------------------
(* fetch_history *)

\* days = (end - start).days + 1
days_short(start, end) == end - start

days(start, end) == end - start + 1

\* entry = {**totals.to_dict(), 'date': date_str}
entry(totals, date_str) ==
    [k \in DOMAIN totals \cup {"date"} |->
        IF k = "date" THEN date_str ELSE totals[k]]

\* history.append(entry)
append_entry_front(h, e) == <<e>> \o h

append_entry(h, e) == Append(h, e)

\* `continue` on an empty standings table: on to the next date
after_empty_break(n, count) == count

after_empty(n, count) == n + 1

\* pd.DataFrame(history), 'date' parsed and made the index
to_frame(h) ==
    [k \in 1..Len(h) |->
        [date   |-> fromisoformat(h[k]["date"]),
         totals |-> [p \in DOMAIN h[k] \ {"date"} |-> h[k][p]]]]

Init ==
    /\ records = <<>>
    /\ result = NotCalled
    /\ games \in GAME_FRAMES
    /\ start_date = <<>>
    /\ end_date = <<>>
    /\ pc = "idle"
    /\ i = 0
    /\ history = <<>>
    /\ frame = <<>>
    /\ fetched = <<>>
    /\ updates = 0

\* fetch_history(start_date, end_date) is called
CallFetchHistory ==
    /\ pc = "idle"
    /\ \E s \in DATE_STRS, e \in DATE_STRS :
          /\ start_date' = s
          /\ end_date' = e
    /\ pc' = "loop"
    /\ i' = 0
    /\ history' = <<>>
    /\ UNCHANGED <<records, result, games, frame, fetched, updates>>

\* one iteration of `for i in range(days)`
Iterate ==
    /\ pc = "loop"
    /\ i < days(fromisoformat(start_date), fromisoformat(end_date))
    /\ \E provider_raises \in BOOLEAN :
          LET date_str  == isoformat(fromisoformat(start_date) + i)
              standings == fetch_standings_for_date(games, date_str,
                                                    provider_raises)
              totals    == calculate_totals(standings)
          IN  /\ fetched' = Append(fetched,
                                   [date |-> date_str, rows |-> games,
                                    raised |-> provider_raises,
                                    standings |-> standings])
              /\ IF standings = EMPTY_STANDINGS
                 THEN /\ i' = after_empty(i, days(fromisoformat(start_date),
                                                  fromisoformat(end_date)))
                      /\ UNCHANGED <<history, pc>>
                 ELSE IF totals.status # "ok"
                 THEN /\ pc' = "raised"
                      /\ UNCHANGED <<history, i>>
                 ELSE /\ history' = append_entry(history,
                                                 entry(totals.totals, date_str))
                      /\ i' = i + 1
                      /\ UNCHANGED pc
    /\ UNCHANGED <<records, result, games, start_date, end_date, frame,
                   updates>>

\* the loop is over: the frame is built and returned
Return ==
    /\ pc = "loop"
    /\ i >= days(fromisoformat(start_date), fromisoformat(end_date))
    /\ frame' = to_frame(history)
    /\ pc' = "done"
    /\ UNCHANGED <<records, result, games, start_date, end_date, i, history,
                   fetched, updates>>

\* between two requests the provider's data changes: one of its rows is
\* withdrawn
ProviderUpdate ==
    /\ pc = "loop"
    /\ updates < MaxUpdates
    /\ \E k \in positions_of(games) :
          games' = frame_of(positions_of(games) \ {k})
    /\ updates' = updates + 1
    /\ UNCHANGED <<records, result, start_date, end_date, pc, i, history,
                   frame, fetched>>

Next == CallFetchHistory \/ Iterate \/ Return \/ ProviderUpdate

Spec == Init /\ [][Next]_vars

---------------------------------------------------------------------------
(* What the claims speak of, stated without the code's operators *)

ParticipantNames == {"Zack", "Ryan", "Streif", "Doug", "Chris", "Matt"}

\* the same letter, whatever the case
SameLetter(a, b) ==
    \/ a = b
    \/ \E k \in 1..Len(UPPER) : {a, b} = {UPPER[k], LOWER[k]}

\* fragment f occurs in name t, compared case-insensitively
ContainsCI(t, f) ==
    \E o \in 0..(Len(t) - Len(f)) :
        \A j \in 1..Len(f) : SameLetter(t[o + j], f[j])

\* every team name a record or a game row of the model carries
AllNames ==
    TEAM_NAMES \cup {GAME_ROWS[k].TEAM_NAME : k \in 1..Len(GAME_ROWS)}

\* the participants with a fragment occurring in the name
OwnersOfName ==
    [t \in AllNames |->
        {p \in ParticipantNames :
            \E j \in 1..Len(PARTICIPANT_TEAMS[p]) :
                ContainsCI(t, PARTICIPANT_TEAMS[p][j])}]

Owners(r) == OwnersOfName[r.team]

Owns(p, r) == p \in Owners(r)

WellFormed(df) == \A k \in 1..Len(df) : DOMAIN df[k] = {"team", "wins"}

Called == result # NotCalled

RECURSIVE SumOver(_, _)
SumOver(S, f) ==
    IF S = {} THEN 0
    ELSE LET x == CHOOSE y \in S : TRUE
         IN  f[x] + SumOver(S \ {x}, f)

WinsOf(df) == [k \in 1..Len(df) |-> df[k].wins]

SumOfTotals == SumOver(DOMAIN result.totals, result.totals)

SumOfWins == SumOver(1..Len(records), WinsOf(records))

\* C1 as stated: the participant totals never add up to more than the
\* wins of the input records.
OrigC1 ==
    (Called /\ WellFormed(records)) => SumOfTotals <= SumOfWins

\* C1, amended: the totals add up to the wins of each record times the
\* number of participants it matches; so they stay within the sum of the
\* input wins when no record matches more than one participant, and equal
\* it when every record matches exactly one.
ThmC1 ==
    (Called /\ WellFormed(records)) =>
        /\ result.status = "ok"
        /\ SumOfTotals =
             SumOver(1..Len(records),
                     [k \in 1..Len(records) |->
                        records[k].wins * Cardinality(Owners(records[k]))])
        /\ (\A k \in 1..Len(records) : Cardinality(Owners(records[k])) <= 1)
             => SumOfTotals <= SumOfWins
        /\ (\A k \in 1..Len(records) : Cardinality(Owners(records[k])) = 1)
             => SumOfTotals = SumOfWins

WitC1 ==
    /\ Called
    /\ Len(records) = 2
    /\ WellFormed(records)
    /\ records[1].team = <<"K","n","i","c","k","s"," ","L","a","k","e","r","s">>
    /\ records[2].team = <<"M","i","a","m","i"," ","H","e","a","t">>
    /\ SumOfWins = 2 * MaxWins
    /\ SumOfTotals = SumOfWins

ExampleRoster == [A |-> << <<"C","a","t","s">> >>, B |-> << <<"D","o","g","s">> >>]

ExampleRecords ==
    << [team |-> <<"W","i","l","d","c","a","t","s">>, wins |-> 5],
       [team |-> <<"D","o","g","s">>, wins |-> 3],
       [team |-> <<"B","i","r","d","s">>, wins |-> 1] >>

\* C2: every participant's total is the sum of the wins of exactly the
\* records whose team name contains, case-insensitively, one of the
\* participant's fragments, each such record counted once; and the
\* spec's example comes out as {A: 5, B: 3}.
ThmC2 ==
    /\ (Called /\ WellFormed(records)) =>
          /\ result.status = "ok"
          /\ \A p \in ParticipantNames :
                result.totals[p] =
                  SumOver({k \in 1..Len(records) : Owns(p, records[k])},
                          WinsOf(records))
    /\ Called => aggregate(ExampleRecords, ExampleRoster)
                   = [status |-> "ok", totals |-> [A |-> 5, B |-> 3]]

WitC2 ==
    /\ Called
    /\ records = << [team |-> <<"L","O","S"," ","A","N","G","E","L","E","S"," ","L","A","K","E","R","S">>, wins |-> 2],
                    [team |-> <<"K","n","i","c","k","s"," ","L","a","k","e","r","s">>, wins |-> 1] >>
    /\ result.totals["Streif"] = 3
    /\ result.totals["Doug"] = 0

\* C3: the result has exactly one entry per roster participant and every
\* value is a non-negative integer.
ThmC3 ==
    (Called /\ WellFormed(records)) =>
        /\ result.status = "ok"
        /\ DOMAIN result.totals = ParticipantNames
        /\ \A p \in DOMAIN result.totals : result.totals[p] \in Nat

WitC3 ==
    /\ Called
    /\ Len(records) = 1
    /\ records[1] = [team |-> <<"B","r","o","o","k","l","y","n"," ","N","e","t","s">>, wins |-> 1]
    /\ DOMAIN result.totals = ParticipantNames

\* C4: on the empty record list the aggregator does not fail and returns
\* 0 for every participant.
ThmC4 ==
    (Called /\ records = <<>>) =>
        /\ result.status = "ok"
        /\ result.totals = [p \in ParticipantNames |-> 0]

WitC4 ==
    /\ Called
    /\ records = <<>>
    /\ result.status = "ok"
    /\ result.totals["Zack"] = 0

\* C7: with a record whose wins or team field is absent the aggregator
\* still returns totals for every participant, computed from the
\* well-formed records (the malformed one skipped or counted as zero).
ClaimC7 ==
    Called =>
        /\ result.status = "ok"
        /\ \A p \in ParticipantNames :
              result.totals[p] =
                SumOver({k \in 1..Len(records) :
                            /\ DOMAIN records[k] = {"team", "wins"}
                            /\ Owns(p, records[k])},
                        [k \in 1..Len(records) |->
                           IF "wins" \in DOMAIN records[k]
                           THEN records[k].wins ELSE 0])


---------------------------------------------------------------------------
(* The claims about fetch_standings_for_date and fetch_history *)

\* calendar order of two ISO dates: year, then month, then day
DateLess(a, b) ==
    \/ a[1] < b[1]
    \/ a[1] = b[1] /\ a[2] < b[2]
    \/ a[1] = b[1] /\ a[2] = b[2] /\ a[3] < b[3]

DateLeq(a, b) == a = b \/ DateLess(a, b)

\* the calendar dates from start_date through end_date
DatesInRange ==
    {CALENDAR[k] : k \in {j \in 1..Len(CALENDAR) :
                            /\ DateLeq(start_date, CALENDAR[j])
                            /\ DateLeq(CALENDAR[j], end_date)}}

Done == pc = "done"

\* the game rows of team t counting as a win as of date d: a win, played
\* on or before d, in the regular season
CountingRows(rows, t, d) ==
    {k \in 1..Len(rows) :
        /\ rows[k].TEAM_NAME = t
        /\ "WL" \in DOMAIN rows[k]
        /\ rows[k].WL = "W"
        /\ DateLeq(rows[k].GAME_DATE, d)
        /\ Len(rows[k].GAME_ID) >= 3
        /\ rows[k].GAME_ID[1] = "0"
        /\ rows[k].GAME_ID[2] = "0"
        /\ rows[k].GAME_ID[3] = "2"}

TeamsOf(rows) == {rows[k].TEAM_NAME : k \in 1..Len(rows)}

\* the wins a standings table gives team t; none when t has no row
WinsIn(standings, t) ==
    SumOver({k \in 1..Len(standings) : standings[k].team = t},
            WinsOf(standings))

\* C5: a failed fetch is an empty result for its date and only that date
\* is skipped: every date of the range is still fetched, and every date
\* whose fetch returned data has its point in the result.
ThmC5 ==
    Done =>
        /\ {fetched[k].date : k \in 1..Len(fetched)} = DatesInRange
        /\ \A k \in 1..Len(fetched) :
              /\ fetched[k].raised => fetched[k].standings = <<>>
              /\ (fetched[k].standings # <<>>) =>
                    \E j \in 1..Len(frame) :
                        CALENDAR[frame[j].date + 1] = fetched[k].date

WitC5 ==
    /\ Done
    /\ Len(fetched) = 3
    /\ ~fetched[1].raised
    /\ fetched[2].raised
    /\ ~fetched[3].raised
    /\ Len(frame) = 2
    /\ frame[2].date = 2

\* C6: the series is in ascending date order and each point carries
\* exactly the totals the aggregator returned for its date's standings.
ThmC6 ==
    Done =>
        /\ \A j \in 1..Len(frame) : \A l \in 1..Len(frame) :
              j < l => DateLess(CALENDAR[frame[j].date + 1],
                                CALENDAR[frame[l].date + 1])
        /\ Len(frame) =
              Cardinality({k \in 1..Len(fetched) : fetched[k].standings # <<>>})
        /\ \A j \in 1..Len(frame) :
              \E k \in 1..Len(fetched) :
                  /\ fetched[k].date = CALENDAR[frame[j].date + 1]
                  /\ fetched[k].standings # <<>>
                  /\ frame[j].totals =
                        calculate_totals(fetched[k].standings).totals

\* three consecutive dates whose totals go up and then down, as in the
\* spec's example
WitC6 ==
    /\ Done
    /\ Len(frame) = 3
    /\ frame[1].totals["Streif"] = 1
    /\ frame[2].totals["Streif"] = 2
    /\ frame[3].totals["Streif"] = 1

\* C8: the standings a fetch for date d returns (each fetch is the last
\* of the log when it returns) give each team the number of its rows
\* that are a win, dated on or before d and of the regular season (no row
\* for a team without such a row), and a failed fetch gives the empty
\* table.
ThmC8 ==
    fetched # <<>> =>
        LET f == fetched[Len(fetched)]
        IN  /\ f.raised => f.standings = <<>>
            /\ ~f.raised =>
                  /\ \A t \in TeamsOf(f.rows) \cup TEAM_NAMES :
                        WinsIn(f.standings, t)
                          = Cardinality(CountingRows(f.rows, t, f.date))
                  /\ \A j \in 1..Len(f.standings) :
                        /\ f.standings[j].wins >= 1
                        /\ \A l \in 1..Len(f.standings) :
                              f.standings[l].team = f.standings[j].team
                                => l = j

WitC8 ==
    \E k \in 1..Len(fetched) :
        /\ ~fetched[k].raised
        /\ fetched[k].date = <<2025, 11, 1>>
        /\ Len(fetched[k].rows) = 2
        /\ fetched[k].rows[1].WL = "W"
        /\ fetched[k].rows[1].GAME_ID = REGULAR
        /\ fetched[k].rows[2].GAME_ID = PLAYOFFS
        /\ fetched[k].standings =
              << [team |-> <<"L","o","s"," ","A","n","g","e","l","e","s"," ","L","a","k","e","r","s">>, wins |-> 1] >>

\* C9: every date from start through end is fetched exactly once, in
\* ascending order; the series has at most that many points, with
\* distinct dates inside the range; nothing is fetched and the series is
\* empty when end is before start.
ThmC9 ==
    Done =>
        /\ Len(fetched) = Cardinality(DatesInRange)
        /\ {fetched[k].date : k \in 1..Len(fetched)} = DatesInRange
        /\ \A k \in 1..Len(fetched) : \A l \in 1..Len(fetched) :
              k < l => DateLess(fetched[k].date, fetched[l].date)
        /\ Len(frame) <= Len(fetched)
        /\ \A j \in 1..Len(frame) :
              /\ CALENDAR[frame[j].date + 1] \in DatesInRange
              /\ \A l \in 1..Len(frame) :
                    frame[l].date = frame[j].date => l = j
        /\ DateLess(end_date, start_date) => (fetched = <<>> /\ frame = <<>>)

WitC9 ==
    /\ Done
    /\ start_date = <<2025, 10, 30>>
    /\ end_date = <<2025, 11, 1>>
    /\ Len(fetched) = 3
    /\ Len(frame) = 3

WitC9Empty ==
    /\ Done
    /\ DateLess(end_date, start_date)
    /\ frame = <<>>

\* C10: while the provider's rows stay the same, no participant's total
\* goes down from one point of the series to a later one.
ThmC10 ==
    (Done /\ updates = 0) =>
        \A j \in 1..Len(frame) : \A l \in 1..Len(frame) :
            frame[j].date <= frame[l].date =>
                \A p \in ParticipantNames :
                    frame[j].totals[p] <= frame[l].totals[p]

WitC10 ==
    /\ Done
    /\ updates = 0
    /\ Len(frame) = 2
    /\ frame[1].totals["Streif"] = 1
    /\ frame[2].totals["Streif"] = 2
    /\ frame[1].totals["Doug"] = 0

=============================================================================
